---- MODULE Spec2Model ----
(***************************************************************************)
(* State-machine model of mstscex: the RDP settings document (RdpSettings, *)
(* RdpLine), the buffered line iterator and the builder's re-parse path.   *)
(*                                                                         *)
(* A Python str is a sequence of characters; a character is a one-element  *)
(* string, control characters being written by their names ("LF", "CR",    *)
(* "TAB", ...).  A Python value that may be None, a str or an int is a     *)
(* record [t, s, n] (None, StrV(s), IntV(n)).                                *)
(***************************************************************************)
EXTENDS Integers, Sequences, FiniteSets, TLC

(* ------------------------------ bounds --------------------------------- *)

\* The most characters pushed into a line buffer.
MaxText == 4

\* The most parts a template yields in one generate.
MaxParts == 2

\* The most bytes of the short blobs the signer returns.
MaxBlob == 3

\* The length of _lines from which parse_line and set append no more and
\* above which sign is not called.
MaxLines == 2

(* --------------------------- Python values ----------------------------- *)

None == [t |-> "none", s |-> <<>>, n |-> 0]

StrV(s) == [t |-> "str", s |-> s, n |-> 0]

IntV(n) == [t |-> "int", s |-> <<>>, n |-> n]

UPPER ==
  <<"A", "B", "C", "D", "E", "F", "G", "H", "I", "J", "K", "L", "M",
    "N", "O", "P", "Q", "R", "S", "T", "U", "V", "W", "X", "Y", "Z">>

LOWER ==
  <<"a", "b", "c", "d", "e", "f", "g", "h", "i", "j", "k", "l", "m",
    "n", "o", "p", "q", "r", "s", "t", "u", "v", "w", "x", "y", "z">>

DIGITS == <<"0", "1", "2", "3", "4", "5", "6", "7", "8", "9">>

UpperSet == {UPPER[i] : i \in 1..Len(UPPER)}

\* The lowercase letter of each uppercase letter.
LowerOf == [ch \in UpperSet |-> LOWER[CHOOSE i \in 1..Len(UPPER) : UPPER[i] = ch]]

\* str.lower() on one character.
LowerCh(ch) == IF ch \in UpperSet THEN LowerOf[ch] ELSE ch

\* str.lower()
Lower(s) == [i \in 1..Len(s) |-> LowerCh(s[i])]

\* The characters str.strip() removes (str.isspace()).
IsSpace(ch) ==
  ch \in {" ", "TAB", "LF", "VT", "FF", "CR", "FS", "GS", "RS", "US",
          "NEL", "NBSP", "LS", "PS"}

\* The slice of s from the first to the last of the positions in keep.
StripTo(s, keep) ==
  IF keep = {} THEN <<>>
  ELSE SubSeq(s, CHOOSE i \in keep : \A j \in keep : i <= j,
              CHOOSE i \in keep : \A j \in keep : j <= i)

\* str.strip()
Strip(s) == StripTo(s, {i \in 1..Len(s) : ~IsSpace(s[i])})

\* The least of a set of positions; 0 when there is none.
First(hits) ==
  IF hits = {} THEN 0 ELSE CHOOSE i \in hits : \A j \in hits : i <= j

\* str.index(ch, start) as a 1-based position; 0 stands for ValueError.
Index(s, ch, start) == First({i \in start..Len(s) : s[i] = ch})

IsDigit(ch) == \E i \in 1..Len(DIGITS) : DIGITS[i] = ch

DigitVal(ch) == (CHOOSE i \in 1..Len(DIGITS) : DIGITS[i] = ch) - 1

RECURSIVE DigitsVal(_)
\* The value of a non-empty run of decimal digits.
DigitsVal(s) ==
  IF Len(s) = 0 THEN 0
  ELSE 10 * DigitsVal(SubSeq(s, 1, Len(s) - 1)) + DigitVal(s[Len(s)])

\* The value of an optional sign followed by decimal digits; anything else
\* is a ValueError (ok = FALSE).
IntOfDigits(neg, body) ==
  IF Len(body) > 0 /\ \A i \in 1..Len(body) : IsDigit(body[i])
  THEN [ok |-> TRUE, n |-> IF neg THEN 0 - DigitsVal(body) ELSE DigitsVal(body)]
  ELSE [ok |-> FALSE, n |-> 0]

IntOfStripped(t) ==
  IF Len(t) > 0 /\ t[1] \in {"+", "-"}
  THEN IntOfDigits(t[1] = "-", SubSeq(t, 2, Len(t)))
  ELSE IntOfDigits(FALSE, t)

\* int(str): surrounding whitespace and one sign are accepted, then decimal
\* digits only.
IntOfStr(s) == IntOfStripped(Strip(s))

\* int(val) for a value that is a str or an int.
PyInt(val) ==
  IF val.t = "int" THEN [ok |-> TRUE, n |-> val.n]
  ELSE IF val.t = "str" THEN IntOfStr(val.s)
  ELSE [ok |-> FALSE, n |-> 0]

RECURSIVE NatToStr(_)
NatToStr(n) ==
  IF n < 10 THEN <<DIGITS[n + 1]>>
  ELSE NatToStr(n \div 10) \o <<DIGITS[(n % 10) + 1]>>

\* str(val) for a value that is a str or an int.
PyStr(val) ==
  IF val.t = "str" THEN val.s
  ELSE IF val.t = "int"
       THEN IF val.n < 0 THEN <<"-">> \o NatToStr(0 - val.n)
            ELSE NatToStr(val.n)
  ELSE <<"N", "o", "n", "e">>

(* ------------------------------ RdpLine -------------------------------- *)

\* An element of RdpSettings._lines: a raw str (is_line = FALSE) or an
\* RdpLine object with its _name, _type and _value.
RawEntry(raw) ==
  [is_line |-> FALSE, raw |-> raw, name |-> <<>>, type |-> <<>>,
   value |-> None]

LineEntry(name, type, value) ==
  [is_line |-> TRUE, raw |-> <<>>, name |-> name, type |-> type,
   value |-> value]

\* The int branch of RdpLine.__init__, c being int(val).
RdpLineInt(name, type, c) ==
  IF c.ok THEN [exc |-> "none", line |-> LineEntry(name, type, IntV(c.n))]
  ELSE [exc |-> "ValueError", line |-> RawEntry(<<>>)]

\* RdpLine.__init__ once _type = typ.lower() is set.
RdpLineOf(name, type, val) ==
  IF type = <<"i">> THEN RdpLineInt(name, type, PyInt(val))
  ELSE IF type # <<"s">> THEN [exc |-> "TypeError", line |-> RawEntry(<<>>)]
  ELSE [exc |-> "none", line |-> LineEntry(name, type, val)]

\* RdpLine.__init__: [exc, line]; exc is "none", "ValueError" or "TypeError".
RdpLine(name, typ, val) == RdpLineOf(name, Lower(typ), val)

\* LineStr writing the name in lowercase, as the index keys it.
LineStrLowerName(line) ==
  Lower(line.name) \o <<":">> \o line.type \o <<":">> \o PyStr(line.value)

\* RdpLine.__str__
LineStr(line) ==
  line.name \o <<":">> \o line.type \o <<":">> \o PyStr(line.value)

\* str(entry) for an element of _lines.
EntryStr(e) == IF e.is_line THEN LineStr(e) ELSE e.raw

(* ----------------------------- RdpSettings ----------------------------- *)

FULL_ADDRESS == <<"f", "u", "l", "l", " ", "a", "d", "d", "r", "e", "s", "s">>

ALTERNATE_FULL_ADDRESS == <<"a", "l", "t", "e", "r", "n", "a", "t", "e", " ", "f", "u", "l", "l", " ", "a", "d", "d", "r", "e", "s", "s">>

SIGNATURE_SCOPE == <<"s", "i", "g", "n", "s", "c", "o", "p", "e">>

SIGNATURE == <<"s", "i", "g", "n", "a", "t", "u", "r", "e">>

SECURE_SETTINGS ==
  <<
    [name |-> <<"f", "u", "l", "l", " ", "a", "d", "d", "r", "e", "s", "s">>,
     secure_name |-> <<"F", "u", "l", "l", " ", "A", "d", "d", "r", "e", "s", "s">>],
    [name |-> <<"a", "l", "t", "e", "r", "n", "a", "t", "e", " ", "f", "u", "l", "l", " ", "a", "d", "d", "r", "e", "s", "s">>,
     secure_name |-> <<"A", "l", "t", "e", "r", "n", "a", "t", "e", " ", "F", "u", "l", "l", " ", "A", "d", "d", "r", "e", "s", "s">>],
    [name |-> <<"p", "c", "b">>,
     secure_name |-> <<"P", "C", "B">>],
    [name |-> <<"u", "s", "e", " ", "r", "e", "d", "i", "r", "e", "c", "t", "i", "o", "n", " ", "s", "e", "r", "v", "e", "r", " ", "n", "a", "m", "e">>,
     secure_name |-> <<"U", "s", "e", " ", "R", "e", "d", "i", "r", "e", "c", "t", "i", "o", "n", " ", "S", "e", "r", "v", "e", "r", " ", "N", "a", "m", "e">>],
    [name |-> <<"s", "e", "r", "v", "e", "r", " ", "p", "o", "r", "t">>,
     secure_name |-> <<"S", "e", "r", "v", "e", "r", " ", "P", "o", "r", "t">>],
    [name |-> <<"n", "e", "g", "o", "t", "i", "a", "t", "e", " ", "s", "e", "c", "u", "r", "i", "t", "y", " ", "l", "a", "y", "e", "r">>,
     secure_name |-> <<"N", "e", "g", "o", "t", "i", "a", "t", "e", " ", "S", "e", "c", "u", "r", "i", "t", "y", " ", "L", "a", "y", "e", "r">>],
    [name |-> <<"e", "n", "a", "b", "l", "e", "c", "r", "e", "d", "s", "s", "p", "s", "u", "p", "p", "o", "r", "t">>,
     secure_name |-> <<"E", "n", "a", "b", "l", "e", "C", "r", "e", "d", "S", "s", "p", "S", "u", "p", "p", "o", "r", "t">>],
    [name |-> <<"d", "i", "s", "a", "b", "l", "e", "c", "o", "n", "n", "e", "c", "t", "i", "o", "n", "s", "h", "a", "r", "i", "n", "g">>,
     secure_name |-> <<"D", "i", "s", "a", "b", "l", "e", "C", "o", "n", "n", "e", "c", "t", "i", "o", "n", "S", "h", "a", "r", "i", "n", "g">>],
    [name |-> <<"a", "u", "t", "o", "r", "e", "c", "o", "n", "n", "e", "c", "t", "i", "o", "n", " ", "e", "n", "a", "b", "l", "e", "d">>,
     secure_name |-> <<"A", "u", "t", "o", "R", "e", "c", "o", "n", "n", "e", "c", "t", "i", "o", "n", " ", "E", "n", "a", "b", "l", "e", "d">>],
    [name |-> <<"g", "a", "t", "e", "w", "a", "y", "h", "o", "s", "t", "n", "a", "m", "e">>,
     secure_name |-> <<"G", "a", "t", "e", "w", "a", "y", "H", "o", "s", "t", "n", "a", "m", "e">>],
    [name |-> <<"g", "a", "t", "e", "w", "a", "y", "u", "s", "a", "g", "e", "m", "e", "t", "h", "o", "d">>,
     secure_name |-> <<"G", "a", "t", "e", "w", "a", "y", "U", "s", "a", "g", "e", "M", "e", "t", "h", "o", "d">>],
    [name |-> <<"g", "a", "t", "e", "w", "a", "y", "p", "r", "o", "f", "i", "l", "e", "u", "s", "a", "g", "e", "m", "e", "t", "h", "o", "d">>,
     secure_name |-> <<"G", "a", "t", "e", "w", "a", "y", "P", "r", "o", "f", "i", "l", "e", "U", "s", "a", "g", "e", "M", "e", "t", "h", "o", "d">>],
    [name |-> <<"g", "a", "t", "e", "w", "a", "y", "c", "r", "e", "d", "e", "n", "t", "i", "a", "l", "s", "s", "o", "u", "r", "c", "e">>,
     secure_name |-> <<"G", "a", "t", "e", "w", "a", "y", "C", "r", "e", "d", "e", "n", "t", "i", "a", "l", "s", "S", "o", "u", "r", "c", "e">>],
    [name |-> <<"s", "u", "p", "p", "o", "r", "t", " ", "u", "r", "l">>,
     secure_name |-> <<"S", "u", "p", "p", "o", "r", "t", " ", "U", "R", "L">>],
    [name |-> <<"p", "r", "o", "m", "p", "t", "c", "r", "e", "d", "e", "n", "t", "i", "a", "l", "o", "n", "c", "e">>,
     secure_name |-> <<"P", "r", "o", "m", "p", "t", "C", "r", "e", "d", "e", "n", "t", "i", "a", "l", "O", "n", "c", "e">>],
    [name |-> <<"r", "e", "q", "u", "i", "r", "e", " ", "p", "r", "e", "-", "a", "u", "t", "h", "e", "n", "t", "i", "c", "a", "t", "i", "o", "n">>,
     secure_name |-> <<"R", "e", "q", "u", "i", "r", "e", " ", "p", "r", "e", "-", "a", "u", "t", "h", "e", "n", "t", "i", "c", "a", "t", "i", "o", "n">>],
    [name |-> <<"p", "r", "e", "-", "a", "u", "t", "h", "e", "n", "t", "i", "c", "a", "t", "i", "o", "n", " ", "s", "e", "r", "v", "e", "r", " ", "a", "d", "d", "r", "e", "s", "s">>,
     secure_name |-> <<"P", "r", "e", "-", "a", "u", "t", "h", "e", "n", "t", "i", "c", "a", "t", "i", "o", "n", " ", "s", "e", "r", "v", "e", "r", " ", "a", "d", "d", "r", "e", "s", "s">>],
    [name |-> <<"a", "l", "t", "e", "r", "n", "a", "t", "e", " ", "s", "h", "e", "l", "l">>,
     secure_name |-> <<"A", "l", "t", "e", "r", "n", "a", "t", "e", " ", "S", "h", "e", "l", "l">>],
    [name |-> <<"s", "h", "e", "l", "l", " ", "w", "o", "r", "k", "i", "n", "g", " ", "d", "i", "r", "e", "c", "t", "o", "r", "y">>,
     secure_name |-> <<"S", "h", "e", "l", "l", " ", "W", "o", "r", "k", "i", "n", "g", " ", "D", "i", "r", "e", "c", "t", "o", "r", "y">>],
    [name |-> <<"r", "e", "m", "o", "t", "e", "a", "p", "p", "l", "i", "c", "a", "t", "i", "o", "n", "p", "r", "o", "g", "r", "a", "m">>,
     secure_name |-> <<"R", "e", "m", "o", "t", "e", "A", "p", "p", "l", "i", "c", "a", "t", "i", "o", "n", "P", "r", "o", "g", "r", "a", "m">>],
    [name |-> <<"r", "e", "m", "o", "t", "e", "a", "p", "p", "l", "i", "c", "a", "t", "i", "o", "n", "e", "x", "p", "a", "n", "d", "w", "o", "r", "k", "i", "n", "g", "d", "i", "r">>,
     secure_name |-> <<"R", "e", "m", "o", "t", "e", "A", "p", "p", "l", "i", "c", "a", "t", "i", "o", "n", "E", "x", "p", "a", "n", "d", "W", "o", "r", "k", "i", "n", "g", "d", "i", "r">>],
    [name |-> <<"r", "e", "m", "o", "t", "e", "a", "p", "p", "l", "i", "c", "a", "t", "i", "o", "n", "m", "o", "d", "e">>,
     secure_name |-> <<"R", "e", "m", "o", "t", "e", "A", "p", "p", "l", "i", "c", "a", "t", "i", "o", "n", "M", "o", "d", "e">>],
    [name |-> <<"r", "e", "m", "o", "t", "e", "a", "p", "p", "l", "i", "c", "a", "t", "i", "o", "n", "g", "u", "i", "d">>,
     secure_name |-> <<"R", "e", "m", "o", "t", "e", "A", "p", "p", "l", "i", "c", "a", "t", "i", "o", "n", "G", "u", "i", "d">>],
    [name |-> <<"r", "e", "m", "o", "t", "e", "a", "p", "p", "l", "i", "c", "a", "t", "i", "o", "n", "n", "a", "m", "e">>,
     secure_name |-> <<"R", "e", "m", "o", "t", "e", "A", "p", "p", "l", "i", "c", "a", "t", "i", "o", "n", "N", "a", "m", "e">>],
    [name |-> <<"r", "e", "m", "o", "t", "e", "a", "p", "p", "l", "i", "c", "a", "t", "i", "o", "n", "i", "c", "o", "n">>,
     secure_name |-> <<"R", "e", "m", "o", "t", "e", "A", "p", "p", "l", "i", "c", "a", "t", "i", "o", "n", "I", "c", "o", "n">>],
    [name |-> <<"r", "e", "m", "o", "t", "e", "a", "p", "p", "l", "i", "c", "a", "t", "i", "o", "n", "f", "i", "l", "e">>,
     secure_name |-> <<"R", "e", "m", "o", "t", "e", "A", "p", "p", "l", "i", "c", "a", "t", "i", "o", "n", "F", "i", "l", "e">>],
    [name |-> <<"r", "e", "m", "o", "t", "e", "a", "p", "p", "l", "i", "c", "a", "t", "i", "o", "n", "f", "i", "l", "e", "e", "x", "t", "e", "n", "s", "i", "o", "n", "s">>,
     secure_name |-> <<"R", "e", "m", "o", "t", "e", "A", "p", "p", "l", "i", "c", "a", "t", "i", "o", "n", "F", "i", "l", "e", "E", "x", "t", "e", "n", "s", "i", "o", "n", "s">>],
    [name |-> <<"r", "e", "m", "o", "t", "e", "a", "p", "p", "l", "i", "c", "a", "t", "i", "o", "n", "c", "m", "d", "l", "i", "n", "e">>,
     secure_name |-> <<"R", "e", "m", "o", "t", "e", "A", "p", "p", "l", "i", "c", "a", "t", "i", "o", "n", "C", "m", "d", "L", "i", "n", "e">>],
    [name |-> <<"r", "e", "m", "o", "t", "e", "a", "p", "p", "l", "i", "c", "a", "t", "i", "o", "n", "e", "x", "p", "a", "n", "d", "c", "m", "d", "l", "i", "n", "e">>,
     secure_name |-> <<"R", "e", "m", "o", "t", "e", "A", "p", "p", "l", "i", "c", "a", "t", "i", "o", "n", "E", "x", "p", "a", "n", "d", "C", "m", "d", "L", "i", "n", "e">>],
    [name |-> <<"p", "r", "o", "m", "p", "t", " ", "f", "o", "r", " ", "c", "r", "e", "d", "e", "n", "t", "i", "a", "l", "s">>,
     secure_name |-> <<"P", "r", "o", "m", "p", "t", " ", "F", "o", "r", " ", "C", "r", "e", "d", "e", "n", "t", "i", "a", "l", "s">>],
    [name |-> <<"a", "u", "t", "h", "e", "n", "t", "i", "c", "a", "t", "i", "o", "n", " ", "l", "e", "v", "e", "l">>,
     secure_name |-> <<"A", "u", "t", "h", "e", "n", "t", "i", "c", "a", "t", "i", "o", "n", " ", "L", "e", "v", "e", "l">>],
    [name |-> <<"a", "u", "d", "i", "o", "m", "o", "d", "e">>,
     secure_name |-> <<"A", "u", "d", "i", "o", "M", "o", "d", "e">>],
    [name |-> <<"r", "e", "d", "i", "r", "e", "c", "t", "d", "r", "i", "v", "e", "s">>,
     secure_name |-> <<"R", "e", "d", "i", "r", "e", "c", "t", "D", "r", "i", "v", "e", "s">>],
    [name |-> <<"r", "e", "d", "i", "r", "e", "c", "t", "p", "r", "i", "n", "t", "e", "r", "s">>,
     secure_name |-> <<"R", "e", "d", "i", "r", "e", "c", "t", "P", "r", "i", "n", "t", "e", "r", "s">>],
    [name |-> <<"r", "e", "d", "i", "r", "e", "c", "t", "c", "o", "m", "p", "o", "r", "t", "s">>,
     secure_name |-> <<"R", "e", "d", "i", "r", "e", "c", "t", "C", "O", "M", "P", "o", "r", "t", "s">>],
    [name |-> <<"r", "e", "d", "i", "r", "e", "c", "t", "s", "m", "a", "r", "t", "c", "a", "r", "d", "s">>,
     secure_name |-> <<"R", "e", "d", "i", "r", "e", "c", "t", "S", "m", "a", "r", "t", "C", "a", "r", "d", "s">>],
    [name |-> <<"r", "e", "d", "i", "r", "e", "c", "t", "p", "o", "s", "d", "e", "v", "i", "c", "e", "s">>,
     secure_name |-> <<"R", "e", "d", "i", "r", "e", "c", "t", "P", "O", "S", "D", "e", "v", "i", "c", "e", "s">>],
    [name |-> <<"r", "e", "d", "i", "r", "e", "c", "t", "c", "l", "i", "p", "b", "o", "a", "r", "d">>,
     secure_name |-> <<"R", "e", "d", "i", "r", "e", "c", "t", "C", "l", "i", "p", "b", "o", "a", "r", "d">>],
    [name |-> <<"d", "e", "v", "i", "c", "e", "s", "t", "o", "r", "e", "d", "i", "r", "e", "c", "t">>,
     secure_name |-> <<"D", "e", "v", "i", "c", "e", "s", "T", "o", "R", "e", "d", "i", "r", "e", "c", "t">>],
    [name |-> <<"d", "r", "i", "v", "e", "s", "t", "o", "r", "e", "d", "i", "r", "e", "c", "t">>,
     secure_name |-> <<"D", "r", "i", "v", "e", "s", "T", "o", "R", "e", "d", "i", "r", "e", "c", "t">>],
    [name |-> <<"l", "o", "a", "d", "b", "a", "l", "a", "n", "c", "e", "i", "n", "f", "o">>,
     secure_name |-> <<"L", "o", "a", "d", "B", "a", "l", "a", "n", "c", "e", "I", "n", "f", "o">>],
    [name |-> <<"r", "e", "d", "i", "r", "e", "c", "t", "d", "i", "r", "e", "c", "t", "x">>,
     secure_name |-> <<"R", "e", "d", "i", "r", "e", "c", "t", "D", "i", "r", "e", "c", "t", "X">>],
    [name |-> <<"r", "d", "g", "i", "s", "k", "d", "c", "p", "r", "o", "x", "y">>,
     secure_name |-> <<"R", "D", "G", "I", "s", "K", "D", "C", "P", "r", "o", "x", "y">>],
    [name |-> <<"k", "d", "c", "p", "r", "o", "x", "y", "n", "a", "m", "e">>,
     secure_name |-> <<"K", "D", "C", "P", "r", "o", "x", "y", "N", "a", "m", "e">>],
    [name |-> <<"e", "v", "e", "n", "t", "l", "o", "g", "u", "p", "l", "o", "a", "d", "a", "d", "d", "r", "e", "s", "s">>,
     secure_name |-> <<"E", "v", "e", "n", "t", "L", "o", "g", "U", "p", "l", "o", "a", "d", "A", "d", "d", "r", "e", "s", "s">>]
  >>

\* The keys of SECURE_SETTINGS.
SecureNames == {SECURE_SETTINGS[i].name : i \in 1..Len(SECURE_SETTINGS)}

\* A document is the pair of RdpSettings._settings (a dict from lowercase
\* name to RdpLine) and RdpSettings._lines (the list of positions).
Doc(s, l) == [settings |-> s, lines |-> l]

\* RdpSettings.clear: the document after construction or clear().
EmptyDoc == Doc(<<>>, <<>>)

\* d[k] = v on a dict.
DictSet(d, k, v) == [x \in (DOMAIN d) \cup {k} |-> IF x = k THEN v ELSE d[x]]

\* del d[k] on a dict that has k.
DictDel(d, k) == [x \in (DOMAIN d) \ {k} |-> d[x]]

\* l without its element at position p; l itself when p = 0.
DropAt(l, p) ==
  IF p = 0 THEN l ELSE SubSeq(l, 1, p - 1) \o SubSeq(l, p + 1, Len(l))

\* list.remove(key) with a str key: the first element equal to key goes.  An
\* RdpLine defines no __eq__, so it never equals a str; only raw str elements
\* can match.  No match is the ValueError that remove() swallows.
ListRemove(l, key) ==
  DropAt(l, First({i \in 1..Len(l) : ~l[i].is_line /\ l[i].raw = key}))

\* RdpSettings.remove (and __delitem__): key is used as given.
remove(D, key) ==
  Doc(IF key \in DOMAIN D.settings THEN DictDel(D.settings, key)
      ELSE D.settings,
      ListRemove(D.lines, key))

\* RdpSettings._add_line
add_line(D, raw) ==
  Doc(D.settings, Append(D.lines, RawEntry(IF raw = None THEN <<>> ELSE raw.s)))

\* RemoveSignature with its second del forgotten.
RemoveSignatureScopeOnly(D, name_l) ==
  IF /\ name_l \in SecureNames
     /\ name_l # SIGNATURE_SCOPE
     /\ name_l # SIGNATURE
  THEN remove(D, SIGNATURE_SCOPE)
  ELSE D

\* The signature-removal tail of RdpSettings.set.
RemoveSignature(D, name_l) ==
  IF /\ name_l \in SecureNames
     /\ name_l # SIGNATURE_SCOPE
     /\ name_l # SIGNATURE
  THEN remove(remove(D, SIGNATURE_SCOPE), SIGNATURE)
  ELSE D

\* SetProp with the position of a new name appended before RdpLine is built.
SetPropAppendFirst(D, name_l, is_new, prop) ==
  IF prop.exc # "none"
  THEN [exc |-> prop.exc,
        doc |-> Doc(D.settings,
                    IF is_new THEN Append(D.lines, LineEntry(name_l, <<>>, None))
                    ELSE D.lines)]
  ELSE [exc |-> "none",
        doc |-> RemoveSignature(
                  Doc(DictSet(D.settings, name_l, prop.line),
                      IF is_new THEN Append(D.lines, prop.line) ELSE D.lines),
                  name_l)]

\* The end of RdpSettings.set, once prop = RdpLine(name, typ, val) is built
\* (or has raised).
SetProp(D, name_l, is_new, prop) ==
  IF prop.exc # "none" THEN [exc |-> prop.exc, doc |-> D]
  ELSE [exc |-> "none",
        doc |-> RemoveSignature(
                  Doc(DictSet(D.settings, name_l, prop.line),
                      IF is_new THEN Append(D.lines, prop.line) ELSE D.lines),
                  name_l)]

\* SetLower with the kind of the call used for a name the index holds.
SetLowerKindOfCall(D, name, name_l, val, typ) ==
  SetProp(D, name_l, name_l \notin DOMAIN D.settings, RdpLine(name, typ, val))

\* RdpSettings.set for a val that is not None, with name_l = name.lower():
\* a name in the index keeps its kind.
SetLower(D, name, name_l, val, typ) ==
  IF name_l \in DOMAIN D.settings
  THEN SetProp(D, name_l, FALSE, RdpLine(name, D.settings[name_l].type, val))
  ELSE SetProp(D, name_l, TRUE, RdpLine(name, typ, val))

\* set keying the index by the name as given, not by its lowercase.
SetCaseSensitive(D, name, val, typ) ==
  IF val = None THEN [exc |-> "none", doc |-> remove(D, name)]
  ELSE SetLower(D, name, name, val, IF typ = None THEN <<"s">> ELSE typ.s)

\* RdpSettings.set (and __setitem__, whose typ is the default "s"):
\* [exc, doc], the exception that left set ("none" when it returned) and the
\* document afterwards.
set(D, name, val, typ) ==
  IF val = None THEN [exc |-> "none", doc |-> remove(D, name)]
  ELSE SetLower(D, name, Lower(name), val,
                IF typ = None THEN <<"s">> ELSE typ.s)

\* The end of parse_line, r being what set did.
ParseResult(r) ==
  IF r.exc = "none" THEN [res |-> "True", doc |-> r.doc]
  ELSE IF r.exc = "ValueError" THEN [res |-> "False", doc |-> r.doc]
  ELSE [res |-> r.exc, doc |-> r.doc]

\* parse_line on a line whose first two colons are at c_pos and c2_pos
\* (0: line.index raised ValueError).
ParseFields(D, line, c_pos, c2_pos) ==
  IF c_pos = 0 \/ c2_pos = 0 THEN [res |-> "False", doc |-> D]
  ELSE ParseResult(set(D, SubSeq(line, 1, c_pos - 1),
                       StrV(SubSeq(line, c2_pos + 1, Len(line))),
                       StrV(SubSeq(line, c_pos + 1, c2_pos - 1))))

ParseColon(D, line, c_pos) ==
  ParseFields(D, line, c_pos,
              IF c_pos = 0 THEN 0 ELSE Index(line, ":", c_pos + 1))

\* parse_line once line = orig_line.strip() is known.
ParseStripped(D, orig_line, line) ==
  IF line = <<>> THEN [res |-> "True", doc |-> add_line(D, orig_line)]
  ELSE ParseColon(D, line, Index(line, ":", 1))

\* RdpSettings.parse_line: [res, doc]; res is "True" or "False" for the value
\* returned, or the name of the exception that left parse_line.
parse_line(D, orig_line) ==
  IF orig_line = None THEN [res |-> "False", doc |-> D]
  ELSE ParseStripped(D, orig_line, Strip(orig_line.s))

\* dict lookup that gives None for KeyError.
Lookup(d, k) == IF k \in DOMAIN d THEN d[k].value ELSE None

\* RdpSettings.get (and __getitem__)
get(D, name) == Lookup(D.settings, Lower(name))

\* RdpSettings.__contains__
contains(D, key) == Lower(key) \in DOMAIN D.settings

\* RdpSettings.signed
signed(D) == contains(D, SIGNATURE_SCOPE) /\ contains(D, SIGNATURE)

\* RdpSettings.lines (and __iter__): every position as a str, then "".
lines(D) == [i \in 1..Len(D.lines) |-> EntryStr(D.lines[i])] \o << <<>> >>

RECURSIVE Join(_, _)
\* sep.join(strs)
Join(sep, strs) ==
  IF Len(strs) = 0 THEN <<>>
  ELSE IF Len(strs) = 1 THEN strs[1]
  ELSE strs[1] \o sep \o Join(sep, Tail(strs))

\* RdpSettings.__str__ with os.linesep = sep.
DocStr(D, sep) == Join(sep, lines(D))

(* -------------------------------- sign --------------------------------- *)

\* struct.pack("<I", n): four bytes, least significant first.
Pack32(n) ==
  <<n % 256, (n \div 256) % 256, (n \div 65536) % 256,
    (n \div 16777216) % 256>>

B64ALPHA == UPPER \o LOWER \o DIGITS \o <<"+", "/">>

\* The four characters base64 writes for a group of one, two or three bytes.
B64Group(b) ==
  IF Len(b) = 1
  THEN <<B64ALPHA[(b[1] \div 4) + 1], B64ALPHA[((b[1] % 4) * 16) + 1],
         "=", "=">>
  ELSE IF Len(b) = 2
  THEN <<B64ALPHA[(b[1] \div 4) + 1],
         B64ALPHA[((b[1] % 4) * 16) + (b[2] \div 16) + 1],
         B64ALPHA[((b[2] % 16) * 4) + 1], "=">>
  ELSE <<B64ALPHA[(b[1] \div 4) + 1],
         B64ALPHA[((b[1] % 4) * 16) + (b[2] \div 16) + 1],
         B64ALPHA[((b[2] % 16) * 4) + (b[3] \div 64) + 1],
         B64ALPHA[(b[3] % 64) + 1]>>

\* base64.b64encode(b).decode("ascii") for a sequence of bytes: character k
\* is one of the four of the group of bytes it belongs to.
b64encode(b) ==
  [k \in 1..(4 * ((Len(b) + 2) \div 3)) |->
     B64Group(SubSeq(b, (3 * ((k - 1) \div 4)) + 1,
                     IF (3 * ((k - 1) \div 4)) + 3 < Len(b)
                     THEN (3 * ((k - 1) \div 4)) + 3 ELSE Len(b)))[((k - 1) % 4) + 1]]

RECURSIVE Wrap(_, _)
\* textwrap.wrap(text, width) for a text without whitespace or hyphens.
Wrap(text, width) ==
  IF Len(text) = 0 THEN <<>>
  ELSE IF Len(text) <= width THEN <<text>>
  ELSE <<SubSeq(text, 1, width)>>
       \o Wrap(SubSeq(text, width + 1, Len(text)), width)

\* The payload with a length field that counts the header as well.
SigPayloadTotalLength(blob_sig) ==
  Pack32(65537) \o Pack32(1) \o Pack32(Len(blob_sig) + 12) \o blob_sig

\* The signature payload: header of magic, version and length, then the blob.
SigPayload(blob_sig) ==
  Pack32(65537) \o Pack32(1) \o Pack32(Len(blob_sig)) \o blob_sig

\* The value sign stores in the signature field.
SignatureValue(blob_sig) ==
  Join(<<" ", " ">>, Wrap(b64encode(SigPayload(blob_sig)), 64))

\* Step 1 of sign left out.
SignNoSynthesis(D, alt, full) == D

\* Step 1 of sign, alt and full being the two addresses in the document.
SignSynthesizeOf(D, alt, full) ==
  IF alt = None /\ full # None
  THEN set(add_line(D, None), ALTERNATE_FULL_ADDRESS, full, StrV(<<"s">>)).doc
  ELSE D

\* Step 1 of sign: add the alternate full address when only the full
\* address is there.
SignSynthesize(D) ==
  SignSynthesizeOf(D, get(D, ALTERNATE_FULL_ADDRESS), get(D, FULL_ADDRESS))

\* The registry entries whose name is in the document, in the order of the
\* document's positions.
SignEntriesDocOrder(D) ==
  [i \in 1..Len(SelectSeq(D.lines,
                  LAMBDA l : l.is_line /\ Lower(l.name) \in SecureNames
                             /\ contains(D, l.name))) |->
     SECURE_SETTINGS[
       CHOOSE r \in 1..Len(SECURE_SETTINGS) :
         SECURE_SETTINGS[r].name =
           Lower(SelectSeq(D.lines,
                   LAMBDA l : l.is_line /\ Lower(l.name) \in SecureNames
                              /\ contains(D, l.name))[i].name)]]

\* The registry entries whose name is in the document, in registry order.
SignEntries(D) ==
  SelectSeq(SECURE_SETTINGS, LAMBDA e : contains(D, e.name))

\* sign_settings: the RdpLine of each of the entries es.
SignSettingsOf(D, es) == [i \in 1..Len(es) |-> D.settings[es[i].name]]

SignSettings(D) == SignSettingsOf(D, SignEntries(D))

\* scope: the display names of the entries es joined by ",".
SignScopeOf(es) == Join(<<",">>, [i \in 1..Len(es) |-> es[i].secure_name])

SignScope(D) == SignScopeOf(SignEntries(D))

\* The text of the blob handed to the signer (before UTF-16LE encoding).
SignBlobOf(ss, scope) ==
  Join(<<"CR", "LF">>, [i \in 1..Len(ss) |-> LineStr(ss[i])])
  \o <<"CR", "LF">> \o <<"s", "i", "g", "n", "s", "c", "o", "p", "e", ":", "s", ":">> \o scope \o <<"CR", "LF", "NUL">>

SignBlob(D) == SignBlobOf(SignSettings(D), SignScope(D))

\* SignEmbed taking "reset line numbers" for the whole position sequence.
SignEmbedResetLines(D, scope, blob_sig) ==
  set(set(add_line(Doc(DictDel(DictDel(D.settings, SIGNATURE_SCOPE),
                               SIGNATURE), <<>>), None),
          SIGNATURE_SCOPE, StrV(scope), StrV(<<"s">>)).doc,
      SIGNATURE, StrV(SignatureValue(blob_sig)), StrV(<<"s">>)).doc

\* The end of sign, once the signer has returned blob_sig.
SignEmbed(D, scope, blob_sig) ==
  set(set(add_line(remove(remove(D, SIGNATURE_SCOPE), SIGNATURE), None),
          SIGNATURE_SCOPE, StrV(scope), StrV(<<"s">>)).doc,
      SIGNATURE, StrV(SignatureValue(blob_sig)), StrV(<<"s">>)).doc

\* sign after its step 1 has left the document D.
SignSigner(D, signer) ==
  IF ~signer.ok THEN [exc |-> "SignerError", doc |-> D]
  ELSE [exc |-> "none", doc |-> SignEmbed(D, SignScope(D), signer.blob_sig)]

\* RdpSettings.sign: signer is what x509_sign does, [ok, blob_sig]: it
\* returns the bytes blob_sig or raises.  The result is [exc, doc].
sign(D, signer) == SignSigner(SignSynthesize(D), signer)

(* ------------------------ BufferedLineIterator ------------------------- *)

\* BufferedLineIterator.is_line_break
is_line_break(ch) ==
  ch \in {"LF", "VT", "FF", "CR", "FS", "GS", "RS", "NEL", "LS", "PS"}

\* push dropping what the buffer held.
PushReplace(buffer, data) == data

\* BufferedLineIterator.push
push(buffer, data) == buffer \o data

\* One turn of the outer loop of __iter__ with i at the break found, as a
\* count of characters before it: the index after the break, CR LF being one.
AfterBreak(buffer, i) ==
  IF buffer[i + 1] = "CR" /\ i + 1 < Len(buffer) /\ buffer[i + 2] = "LF"
  THEN i + 2
  ELSE i + 1

\* __iter__ yielding what is left after the last break as a line too.
IterFlush(buffer, keepends, j, out) ==
  [yielded |-> Append(out, SubSeq(buffer, j + 1, Len(buffer))),
   buffer |-> <<>>]

RECURSIVE IterFrom(_, _, _, _)
\* BufferedLineIterator.__iter__ run to its end from the top of its outer
\* loop, where i = j: [yielded, buffer], the lines yielded (after those in
\* out) and the buffer the finally clause leaves.
IterFrom(buffer, keepends, j, out) ==
  IF First({p \in (j + 1)..Len(buffer) : is_line_break(buffer[p])}) = 0
  THEN [yielded |-> out, buffer |-> SubSeq(buffer, j + 1, Len(buffer))]
  ELSE IterFrom(
         buffer, keepends,
         AfterBreak(buffer,
           First({p \in (j + 1)..Len(buffer) : is_line_break(buffer[p])}) - 1),
         Append(out,
           SubSeq(buffer, j + 1,
             IF keepends
             THEN AfterBreak(buffer,
                    First({p \in (j + 1)..Len(buffer) :
                             is_line_break(buffer[p])}) - 1)
             ELSE First({p \in (j + 1)..Len(buffer) :
                           is_line_break(buffer[p])}) - 1)))

\* A complete iteration over a BufferedLineIterator holding buffer.
Iter(buffer, keepends) == IterFrom(buffer, keepends, 0, <<>>)

RECURSIVE IterCuts(_, _, _)
\* The values j takes at line 77 in a complete iteration from the top of the
\* outer loop, one for each line yielded (after those in out): the count of
\* characters of buffer before the start of the next line.
IterCuts(buffer, j, out) ==
  IF First({p \in (j + 1)..Len(buffer) : is_line_break(buffer[p])}) = 0
  THEN out
  ELSE IterCuts(
         buffer,
         AfterBreak(buffer,
           First({p \in (j + 1)..Len(buffer) : is_line_break(buffer[p])}) - 1),
         Append(out,
           AfterBreak(buffer,
             First({p \in (j + 1)..Len(buffer) :
                      is_line_break(buffer[p])}) - 1)))

(* ------------------------ RdpBuilder.generate -------------------------- *)

RECURSIVE ParseLines(_, _)
\* "for line in line_buffer: self.settings.parse_line(line)": [exc, doc]; an
\* exception leaving parse_line leaves the loop.
ParseLines(r, strs) ==
  IF r.exc # "none" \/ Len(strs) = 0 THEN r
  ELSE ParseLines(
         [exc |-> IF parse_line(r.doc, StrV(Head(strs))).res \in {"True", "False"}
                  THEN "none"
                  ELSE parse_line(r.doc, StrV(Head(strs))).res,
          doc |-> parse_line(r.doc, StrV(Head(strs))).doc],
         Tail(strs))

RECURSIVE GenerateParts(_, _, _)
\* The first loop of RdpBuilder.generate over the parts the template yields:
\* [exc, doc, buffer].
GenerateParts(r, buffer, parts) ==
  IF r.exc # "none" \/ Len(parts) = 0
  THEN [exc |-> r.exc, doc |-> r.doc, buffer |-> buffer]
  ELSE GenerateParts(
         ParseLines(r, Iter(push(buffer, Head(parts)), FALSE).yielded),
         Iter(push(buffer, Head(parts)), FALSE).buffer,
         Tail(parts))

\* "handle last line": parse_line on what is left in the buffer.
GenerateLast(g) ==
  IF g.exc # "none" THEN [exc |-> g.exc, doc |-> g.doc]
  ELSE ParseLines([exc |-> "none", doc |-> g.doc], <<g.buffer>>)

\* RdpBuilder.generate up to the pre-sign hook, on a new builder.
GenerateParse(parts) ==
  GenerateLast(GenerateParts([exc |-> "none", doc |-> EmptyDoc], <<>>, parts))

\* os.linesep on the platforms there are.
LineSeps == { <<"LF">>, <<"CR", "LF">> }

(* ---------------------------- state machine ---------------------------- *)

VARIABLES
  _settings,     \* RdpSettings._settings
  _lines,        \* RdpSettings._lines
  last,          \* the last call made on the document and how it ended
  _buffer,       \* BufferedLineIterator._buffer
  _keepends,     \* BufferedLineIterator._keepends
  pushed,        \* all the data given to push so far, in order
  yielded,       \* all the lines __iter__ has yielded so far, in order
  cuts,          \* for each line yielded, the count of characters of pushed
                 \* before the start of the next line (j at line 77)
  pc,            \* where RdpBuilder.generate is
  parts,         \* the parts the template has yielded in this generate
  sign_with,     \* RdpBuilder.sign_with is not None
  signer_calls,  \* the calls of x509_sign made so far
  events,        \* what generate has done so far in this run, in order
  result,        \* what RdpBuilder.generate returned
  blob_sig,      \* blob_sig in sign: the bytes x509_sign returned
  sig            \* sig in sign: the payload built from blob_sig

\* The variables of the line buffer.
splitVars == <<_buffer, _keepends, pushed, yielded, cuts>>

\* The variables of the builder.
buildVars == <<pc, parts, sign_with, signer_calls, events, result>>

\* The local variables sign has when it returns.
signVars == <<blob_sig, sig>>

vars ==
  <<_settings, _lines, last, _buffer, _keepends, pushed, yielded, cuts,
    pc, parts, sign_with, signer_calls, events, result, blob_sig, sig>>

\* Outside sign its local variables hold nothing.
NoSign ==
  /\ blob_sig' = <<>>
  /\ sig' = <<>>

\* The document the variables hold.
D0 == Doc(_settings, _lines)

\* The document the next state holds.
D1 == Doc(_settings', _lines')

\* The lines given to parse_line.
ParseInputs ==
  { None,
    StrV(<<>>),
    StrV(<<"x", ":", "s", ":", "1">>),
    StrV(<<"X", ":", "I", ":", "0", "2">>),
    StrV(<<"F", "u", "l", "l", " ", "A", "d", "d", "r", "e", "s", "s", ":", "s", ":", "z">>),
    StrV(<<"x", ":", "i", ":", "z">>),
    StrV(<<"x", ":", "b", ":", "1">>),
    StrV(<<"x", ":", "s">>) }

\* The calls of set: name, val and typ.
SetInputs ==
  { <<<<"x">>, StrV(<<"1">>), None>>,
    <<<<"x">>, StrV(<<"z">>), None>>,
    <<<<"x">>, StrV(<<"1">>), StrV(<<"b">>)>>,
    <<<<"x">>, None, None>>,
    <<<<"X">>, None, None>>,
    <<<<"F", "u", "l", "l", " ", "A", "d", "d", "r", "e", "s", "s">>, StrV(<<"1">>), None>>,
    <<<<"F", "u", "l", "l", " ", "A", "d", "d", "r", "e", "s", "s">>, StrV(<<"z">>), StrV(<<"I">>)>> }

\* The keys given to remove.
RemoveKeys == { <<>>, <<"x">>, <<"X">>, <<"f", "u", "l", "l", " ", "a", "d", "d", "r", "e", "s", "s">> }

\* What the signer may do: raise, or return some bytes.
SignerOutcomes ==
  { [ok |-> FALSE, blob_sig |-> <<>>],
    [ok |-> TRUE, blob_sig |-> <<83, 73, 71>>] }

\* A call may grow the document only while it is below MaxLines.
Fits(D) == Len(D.lines) <= Len(_lines) \/ Len(_lines) < MaxLines

\* The record of a call: its name, how it ended (the value returned or the
\* exception raised) and whether the document was signed when it was made.
Call(op, res) == [op |-> op, res |-> res, was_signed |-> signed(D0)]

\* A new RdpBuilder: its RdpSettings, no generate running, and the line
\* buffer generate makes.
Init ==
  /\ _settings = EmptyDoc.settings
  /\ _lines = EmptyDoc.lines
  /\ last = [op |-> "init", res |-> "none", was_signed |-> FALSE]
  /\ _buffer = <<>>
  /\ _keepends = FALSE
  /\ pushed = <<>>
  /\ yielded = <<>>
  /\ cuts = <<>>
  /\ pc = "idle"
  /\ parts = 0
  /\ sign_with = FALSE
  /\ signer_calls = 0
  /\ events = <<>>
  /\ result = None
  /\ blob_sig = <<>>
  /\ sig = <<>>

Clear ==
  /\ _settings' = EmptyDoc.settings
  /\ _lines' = EmptyDoc.lines
  /\ last' = Call("clear", "none")
  /\ UNCHANGED <<splitVars, buildVars>>
  /\ NoSign

ParseLine(orig_line) ==
  LET r == parse_line(D0, orig_line)
  IN /\ Fits(r.doc)
     /\ _settings' = r.doc.settings
     /\ _lines' = r.doc.lines
     /\ last' = Call("parse_line", r.res)
     /\ UNCHANGED <<splitVars, buildVars>>
     /\ NoSign

Set(name, val, typ) ==
  LET r == set(D0, name, val, typ)
  IN /\ Fits(r.doc)
     /\ _settings' = r.doc.settings
     /\ _lines' = r.doc.lines
     /\ last' = Call("set", r.exc)
     /\ UNCHANGED <<splitVars, buildVars>>
     /\ NoSign

Remove(key) ==
  LET D == remove(D0, key)
  IN /\ _settings' = D.settings
     /\ _lines' = D.lines
     /\ last' = Call("remove", "none")
     /\ UNCHANGED <<splitVars, buildVars>>
     /\ NoSign

Sign(signer) ==
  LET r == sign(D0, signer)
  IN /\ Len(_lines) <= MaxLines
     /\ _settings' = r.doc.settings
     /\ _lines' = r.doc.lines
     /\ last' = Call("sign", r.exc)
     /\ UNCHANGED <<splitVars, buildVars>>
     /\ blob_sig' = IF r.exc = "none" THEN signer.blob_sig ELSE <<>>
     /\ sig' = IF r.exc = "none" THEN SigPayload(signer.blob_sig) ELSE <<>>

Next ==
  \/ Clear
  \/ \E orig_line \in ParseInputs : ParseLine(orig_line)
  \/ \E c \in SetInputs : Set(c[1], c[2], c[3])
  \/ \E key \in RemoveKeys : Remove(key)
  \/ \E signer \in SignerOutcomes : Sign(signer)

Spec == Init /\ [][Next]_vars

\* The lines given to parse_line when the document is built from text alone.
TextInputs ==
  { StrV(<<>>),
    StrV(<<" ">>),
    StrV(<<"x", ":", "s", ":", "1">>),
    StrV(<<" ", "X", ":", "I", ":", "0", "2", " ">>),
    StrV(<<"y", ":", "i", ":", "-", "3">>),
    StrV(<<"F", "u", "l", "l", " ", "A", "d", "d", "r", "e", "s", "s", ":", "s", ":", "a", ":", "b">>),
    StrV(<<"y", ":", "i", ":", "z">>),
    StrV(<<"z", ":", "S", ":">>),
    StrV(<<"x", ":", "s">>),
    StrV(<<"x">>) }

\* A document built by parse_line calls alone.
NextParse ==
  \/ Clear
  \/ \E orig_line \in TextInputs : ParseLine(orig_line)

SpecParse == Init /\ [][NextParse]_vars

\* Lines of the form name:kind:value with kind s or i and a value int()
\* takes when the kind is i; coerced is the value the line denotes.
FieldInputs ==
  { [name |-> <<"x">>, kind |-> <<"s">>, value |-> <<"1">>, coerced |-> StrV(<<"1">>)],
    [name |-> <<"F", "u", "l", "l", " ", "A", "d", "d", "r", "e", "s", "s">>, kind |-> <<"s">>, value |-> <<"a", ":", "b">>,
     coerced |-> StrV(<<"a", ":", "b">>)],
    [name |-> <<"z">>, kind |-> <<"s">>, value |-> <<>>, coerced |-> StrV(<<>>)],
    [name |-> <<"x">>, kind |-> <<"s">>, value |-> <<"1", " ">>, coerced |-> StrV(<<"1", " ">>)],
    [name |-> <<"X">>, kind |-> <<"i">>, value |-> <<"2">>, coerced |-> IntV(2)],
    [name |-> <<"y">>, kind |-> <<"i">>, value |-> <<"-", "3">>, coerced |-> IntV(-3)],
    [name |-> <<"y">>, kind |-> <<"i">>, value |-> <<"0">>, coerced |-> IntV(0)],
    [name |-> <<"x">>, kind |-> <<"i">>, value |-> <<"0", "2">>, coerced |-> IntV(2)],
    [name |-> <<"y">>, kind |-> <<"i">>, value |-> <<"+", "3">>, coerced |-> IntV(3)],
    [name |-> <<"z">>, kind |-> <<"i">>, value |-> <<" ", "7">>, coerced |-> IntV(7)] }

\* The text of the line for f.
FieldLine(f) == f.name \o <<":">> \o f.kind \o <<":">> \o f.value

\* parse_line on the line of f.
ParseField(f) == ParseLine(StrV(FieldLine(f)))

\* A document built by parse_line calls on well-formed lines.
NextField ==
  \/ Clear
  \/ \E f \in FieldInputs : ParseField(f)

SpecField == Init /\ [][NextField]_vars

\* A new BufferedLineIterator, with keepends or without.
InitSplit ==
  /\ _settings = EmptyDoc.settings
  /\ _lines = EmptyDoc.lines
  /\ last = [op |-> "init", res |-> "none", was_signed |-> FALSE]
  /\ _buffer = <<>>
  /\ _keepends \in BOOLEAN
  /\ pushed = <<>>
  /\ yielded = <<>>
  /\ cuts = <<>>
  /\ pc = "idle"
  /\ parts = 0
  /\ sign_with = FALSE
  /\ signer_calls = 0
  /\ events = <<>>
  /\ result = None
  /\ blob_sig = <<>>
  /\ sig = <<>>

\* The data given to push.
SplitInputs == { <<"a">>, <<"CR">>, <<"LF">>, <<"a", "CR">>, <<"LF", "b">> }

\* The count of characters of pushed that the iterations so far have dropped
\* from the buffer.
Dropped == IF Len(cuts) = 0 THEN 0 ELSE cuts[Len(cuts)]

\* BufferedLineIterator.push
Push(data) ==
  /\ Len(pushed) + Len(data) <= MaxText
  /\ _buffer' = push(_buffer, data)
  /\ pushed' = pushed \o data
  /\ last' = Call("push", "none")
  /\ UNCHANGED <<_settings, _lines, _keepends, yielded, cuts, buildVars>>
  /\ NoSign

\* A complete iteration: "for line in line_buffer".
Iterate ==
  /\ _buffer' = Iter(_buffer, _keepends).buffer
  /\ yielded' = yielded \o Iter(_buffer, _keepends).yielded
  /\ cuts' = cuts \o [k \in 1..Len(IterCuts(_buffer, 0, <<>>)) |->
                        Dropped + IterCuts(_buffer, 0, <<>>)[k]]
  /\ last' = Call("iter", "none")
  /\ UNCHANGED <<_settings, _lines, _keepends, pushed, buildVars>>
  /\ NoSign

NextSplit ==
  \/ \E data \in SplitInputs : Push(data)
  \/ Iterate

SpecSplit == InitSplit /\ [][NextSplit]_vars

\* The parts a template yields.
TemplateParts ==
  { <<"s", "i", "g", "n", "s", "c", "o", "p", "e", ":", "s", ":", "x", "LF", "s", "i", "g", "n", "a", "t", "u", "r", "e", ":", "s", ":", "y", "LF">>,
    <<"f", "u", "l", "l", " ", "a", "d", "d", "r", "e", "s", "s", ":", "s", ":", "z", "LF">>,
    <<"x", ":", "s", ":", "1", "CR">>,
    <<"LF", "X", ":", "I", ":", "2">>,
    <<"x", ":", "b", ":", "1", "LF">> }

\* What the pre-sign hook is: None, or a callable that sets a field of
\* builder.settings.
HookInputs == { None, StrV(<<"F", "u", "l", "l", " ", "A", "d", "d", "r", "e", "s", "s">>) }

\* One thing generate does: a push of a part, a parse_line of a line the
\* buffer yielded, the parse_line of the last line, the call of the pre-sign
\* hook, the call of sign, or str(self.settings); arg is the part or line.
Event(ev, arg) == [ev |-> ev, arg |-> arg]

RECURSIVE ParseEvents(_, _)
\* The parse_line calls of "for line in line_buffer" on the document D, strs
\* being the lines the buffer yields: the loop ends with the call that an
\* exception leaves.
ParseEvents(D, strs) ==
  IF Len(strs) = 0 THEN <<>>
  ELSE IF parse_line(D, StrV(Head(strs))).res \notin {"True", "False"}
  THEN <<Event("parse_line", Head(strs))>>
  ELSE <<Event("parse_line", Head(strs))>>
       \o ParseEvents(parse_line(D, StrV(Head(strs))).doc, Tail(strs))

\* The template's sign() signing at once instead of storing the
\* certificate and key for generate.
DelayedSignNow ==
  /\ pc \in {"idle", "parts"}
  /\ ~sign_with
  /\ sign_with' = TRUE
  /\ _settings' = sign(D0, [ok |-> TRUE, blob_sig |-> <<83, 73, 71>>]).doc.settings
  /\ _lines' = sign(D0, [ok |-> TRUE, blob_sig |-> <<83, 73, 71>>]).doc.lines
  /\ events' = Append(events, Event("sign", <<>>))
  /\ signer_calls' = signer_calls + 1
  /\ UNCHANGED <<last, splitVars, pc, parts, result>>
  /\ NoSign

\* RdpBuilder.delayed_sign before generate, and the template's sign()
\* (_delayed_sign_template) while the template is rendered.
DelayedSign ==
  /\ pc \in {"idle", "parts"}
  /\ ~sign_with
  /\ sign_with' = TRUE
  /\ UNCHANGED <<_settings, _lines, last, splitVars, pc, parts,
                 signer_calls, events, result>>
  /\ NoSign

\* generate is called: it makes its line buffer.
GenerateBegin ==
  /\ pc = "idle"
  /\ pc' = "parts"
  /\ parts' = 0
  /\ _buffer' = <<>>
  /\ _keepends' = FALSE
  /\ pushed' = <<>>
  /\ yielded' = <<>>
  /\ cuts' = <<>>
  /\ signer_calls' = 0
  /\ events' = <<>>
  /\ result' = None
  /\ last' = Call("generate", "none")
  /\ UNCHANGED <<_settings, _lines, sign_with>>
  /\ NoSign

\* One turn of the loop over the template: the part is pushed and every
\* line the buffer then yields is parsed.  An exception that leaves
\* parse_line leaves generate, and its line buffer is lost with it.
GeneratePart(part) ==
  LET g == GenerateParts([exc |-> "none", doc |-> D0], _buffer, <<part>>)
  IN /\ pc = "parts"
     /\ parts < MaxParts
     /\ parts' = parts + 1
     /\ _settings' = g.doc.settings
     /\ _lines' = g.doc.lines
     /\ pc' = IF g.exc = "none" THEN "parts" ELSE "raised"
     /\ _buffer' = IF g.exc = "none" THEN g.buffer ELSE <<>>
     /\ pushed' = pushed \o part
     /\ yielded' = yielded \o Iter(push(_buffer, part), _keepends).yielded
     /\ cuts' = cuts \o [k \in 1..Len(IterCuts(push(_buffer, part), 0, <<>>))
                          |-> Dropped + IterCuts(push(_buffer, part), 0, <<>>)[k]]
     /\ events' = events \o <<Event("push", part)>>
                    \o ParseEvents(D0, Iter(push(_buffer, part), _keepends).yielded)
     /\ last' = Call("generate", g.exc)
     /\ UNCHANGED <<_keepends, sign_with, signer_calls, result>>
     /\ NoSign

\* "handle last line": the template has ended and what is left in the
\* buffer is parsed.
GenerateLastLine ==
  LET r == GenerateLast([exc |-> "none", doc |-> D0, buffer |-> _buffer])
  IN /\ pc = "parts"
     /\ _settings' = r.doc.settings
     /\ _lines' = r.doc.lines
     /\ pc' = IF r.exc = "none" THEN "hook" ELSE "raised"
     /\ events' = Append(events, Event("last_line", _buffer))
     /\ last' = Call("generate", r.exc)
     /\ UNCHANGED <<splitVars, parts, sign_with, signer_calls, result>>
     /\ NoSign

\* The pre-sign hook, when there is one.
GeneratePreSignHook(hook) ==
  LET r == IF hook = None THEN [exc |-> "none", doc |-> D0]
           ELSE set(D0, hook.s, StrV(<<"1">>), None)
  IN /\ pc = "hook"
     /\ _settings' = r.doc.settings
     /\ _lines' = r.doc.lines
     /\ pc' = IF r.exc = "none" THEN "sign" ELSE "raised"
     /\ events' = IF hook = None THEN events
                  ELSE Append(events, Event("hook", <<>>))
     /\ last' = Call("generate", r.exc)
     /\ UNCHANGED <<splitVars, parts, sign_with, signer_calls, result>>
     /\ NoSign

\* "sign if applicable": with sign_with set, sign is called and an
\* exception that leaves it is caught and logged.
GenerateSign(signer) ==
  LET r == sign(D0, signer)
  IN /\ pc = "sign"
     /\ sign_with
     /\ _settings' = r.doc.settings
     /\ _lines' = r.doc.lines
     /\ signer_calls' = signer_calls + 1
     /\ events' = Append(events, Event("sign", <<>>))
     /\ pc' = "str"
     /\ last' = Call("sign", r.exc)
     /\ UNCHANGED <<splitVars, parts, sign_with, result>>
     /\ blob_sig' = IF r.exc = "none" THEN signer.blob_sig ELSE <<>>
     /\ sig' = IF r.exc = "none" THEN SigPayload(signer.blob_sig) ELSE <<>>

\* "sign if applicable" with sign_with None: nothing is signed.
GenerateNoSign ==
  /\ pc = "sign"
  /\ ~sign_with
  /\ pc' = "str"
  /\ last' = Call("generate", "none")
  /\ UNCHANGED <<_settings, _lines, splitVars, parts, sign_with,
                 signer_calls, events, result>>
  /\ NoSign

\* "result = str(self.settings)" and the return of generate.
GenerateReturn(sep) ==
  /\ pc = "str"
  /\ result' = StrV(DocStr(D0, sep))
  /\ events' = Append(events, Event("str", <<>>))
  /\ pc' = "done"
  /\ UNCHANGED <<_settings, _lines, last, splitVars, parts, sign_with,
                 signer_calls>>
  /\ NoSign

NextBuild ==
  \/ DelayedSign
  \/ GenerateBegin
  \/ \E part \in TemplateParts : GeneratePart(part)
  \/ GenerateLastLine
  \/ \E hook \in HookInputs : GeneratePreSignHook(hook)
  \/ \E signer \in SignerOutcomes : GenerateSign(signer)
  \/ GenerateNoSign
  \/ \E sep \in LineSeps : GenerateReturn(sep)

\* One run of generate on a new RdpBuilder.
SpecBuild == Init /\ [][NextBuild]_vars

\* The calls of set that build the documents to sign: fields of the
\* registry and one that is not.
ScopeInputs ==
  { <<<<"k", "d", "c", "p", "r", "o", "x", "y", "n", "a", "m", "e">>, StrV(<<"1">>), None>>,
    <<<<"F", "u", "l", "l", " ", "A", "d", "d", "r", "e", "s", "s">>, StrV(<<"z">>), None>>,
    <<<<"a", "l", "t", "e", "r", "n", "a", "t", "e", " ", "f", "u", "l", "l", " ", "a", "d", "d", "r", "e", "s", "s">>, StrV(<<"1">>), None>>,
    <<<<"P", "C", "B">>, StrV(<<"1">>), None>>,
    <<<<"x">>, StrV(<<"1">>), None>> }

\* Documents built by set in any order, and signed.
NextScope ==
  \/ Clear
  \/ \E c \in ScopeInputs : Set(c[1], c[2], c[3])
  \/ \E signer \in SignerOutcomes : Sign(signer)

SpecScope == Init /\ [][NextScope]_vars

\* The values of the bytes x509_sign returns.
PayloadBytes == {0, 83, 255}

\* The bytes x509_sign returns: every sequence of up to MaxBlob bytes, and
\* three long ones, around the length that takes a second byte to write.
PayloadBlobs ==
  UNION {[1..n -> PayloadBytes] : n \in 0..MaxBlob}
  \cup {[i \in 1..n |-> i % 256] : n \in {255, 256, 257}}

\* The calls of set before a sign.
PayloadSets ==
  { <<<<"x">>, StrV(<<"1">>), None>>,
    <<<<"F", "u", "l", "l", " ", "A", "d", "d", "r", "e", "s", "s">>, StrV(<<"z">>), None>> }

\* Documents of up to two fields signed with a signer that returns.
NextPayload ==
  \/ Clear
  \/ \E c \in PayloadSets : Set(c[1], c[2], c[3])
  \/ \E b \in PayloadBlobs : Sign([ok |-> TRUE, blob_sig |-> b])

SpecPayload == Init /\ [][NextPayload]_vars

(* ------------------------------- claims -------------------------------- *)

\* The positions of _lines that hold the RdpLine for the lowercase name k.
PositionsOf(l, k) == {i \in 1..Len(l) : l[i].is_line /\ Lower(l[i].name) = k}

\* C1: the index and the position sequence agree: every RdpLine of the
\* index is at exactly one position, and every RdpLine of the position
\* sequence is the one the index holds for its lowercase name.
C1_IndexAgreesWithLines ==
  /\ \A k \in DOMAIN _settings :
       Cardinality({i \in 1..Len(_lines) : _lines[i] = _settings[k]}) = 1
  /\ \A i \in 1..Len(_lines) :
       _lines[i].is_line =>
         /\ Lower(_lines[i].name) \in DOMAIN _settings
         /\ _settings[Lower(_lines[i].name)] = _lines[i]

\* A call of set in SetInputs that gives a value to a name of the registry.
SecureSet(c) ==
  /\ c[2] # None
  /\ Lower(c[1]) \in SecureNames \ {SIGNATURE_SCOPE, SIGNATURE}
  /\ Set(c[1], c[2], c[3])

\* C2: a set that gives a value to a name of the secure-field registry and
\* returns leaves neither envelope field in the index: the document is not
\* signed after it.
C2_SecureSetRemovesEnvelope ==
  [][\A c \in SetInputs :
       (SecureSet(c) /\ last'.res = "none") =>
         /\ SIGNATURE_SCOPE \notin DOMAIN _settings'
         /\ SIGNATURE \notin DOMAIN _settings'
         /\ ~signed(D1)]_vars

\* C2 happens: a set of a registry name has just returned on a document
\* that was signed, and the document is signed no more.
C2_Witness ==
  /\ last.op = "set"
  /\ last.res = "none"
  /\ last.was_signed
  /\ FULL_ADDRESS \in DOMAIN _settings
  /\ ~signed(D0)

\* A field in the scope of the signature (a registry name the signed
\* document holds) gets another value or leaves the index.
SignedFieldMutated ==
  /\ signed(D0)
  /\ \E k \in (DOMAIN _settings) \cap SecureNames :
       k \notin DOMAIN _settings' \/ _settings'[k] # _settings[k]

\* C3: once the document is signed, a set, parse_line or remove that
\* changes or deletes a field in the signed scope leaves it not signed.
C3_SignedFieldMutationInvalidates ==
  [][(last'.op \in {"set", "parse_line", "remove"} /\ SignedFieldMutated)
       => ~signed(D1)]_vars

\* A call of set in SetInputs that gives a value to a name the index holds.
UpdatingSet(c) ==
  /\ c[2] # None
  /\ Lower(c[1]) \in DOMAIN _settings
  /\ Set(c[1], c[2], c[3])
  /\ last'.res = "none"

\* C4: a set of a name the index holds keeps the number of positions, and
\* the text of the field's position is then the line of the new value.
C4_UpdateInPlace ==
  [][\A c \in SetInputs :
       UpdatingSet(c) =>
         /\ Len(_lines') = Len(_lines)
         /\ \A i \in PositionsOf(_lines, Lower(c[1])) :
              EntryStr(_lines'[i]) = LineStr(_settings'[Lower(c[1])])]_vars

\* C5: a set or parse_line on a name the index holds keeps the kind of the
\* indexed entry, whatever kind the call names; and when a set on an integer
\* field returns, get gives the new value as an integer.
C5_KindFixedAtCreation ==
  [][/\ last'.op \in {"set", "parse_line"} =>
          \A k \in (DOMAIN _settings) \cap (DOMAIN _settings') :
            _settings'[k].type = _settings[k].type
     /\ \A c \in SetInputs :
          (UpdatingSet(c) /\ _settings[Lower(c[1])].type = <<"i">>) =>
            /\ PyInt(c[2]).ok
            /\ get(D1, c[1]) = IntV(PyInt(c[2]).n)]_vars

\* C5 happens: the integer field created as X by parse_line has been set
\* under the name x, and is an integer still.
C5_Witness ==
  /\ last.op = "set"
  /\ last.res = "none"
  /\ <<"x">> \in DOMAIN _settings
  /\ _settings[<<"x">>] = LineEntry(<<"x">>, <<"i">>, IntV(1))

\* What remove(key) and set(key, None) are to leave when key names a field.
Removed(D, key) ==
  /\ get(D, key) = None
  /\ ~contains(D, key)
  /\ PositionsOf(D.lines, Lower(key)) = {}

\* C6: remove(key), and set(key, None), on a key that names a field in any
\* letter case, leaves the field neither in the index nor in the position
\* sequence.
C6_RemoveDeletesField ==
  [][/\ \A key \in RemoveKeys :
          (contains(D0, key) /\ Remove(key)) => Removed(D1, key)
     /\ \A c \in SetInputs :
          (c[2] = None /\ contains(D0, c[1]) /\ Set(c[1], c[2], c[3]))
            => Removed(D1, c[1])]_vars

\* C7: remove(key) on a key that is not in the index changes neither the
\* index nor the position sequence.
C7_RemoveAbsentIsNoOp ==
  [][\A key \in RemoveKeys :
       (key \notin DOMAIN _settings /\ Remove(key))
         => (_settings' = _settings /\ _lines' = _lines)]_vars

\* C8: parse_line returns True or False, whatever the line; no exception
\* leaves it.
C8_ParseLineNeverRaises ==
  last.op = "parse_line" => last.res \in {"True", "False"}

\* C9: a parse_line that returns False leaves the index and the position
\* sequence as they were.
C9_FailedParseIsNoOp ==
  [][(last'.op = "parse_line" /\ last'.res = "False")
       => (_settings' = _settings /\ _lines' = _lines)]_vars

\* C9 happens: parse_line has returned False on a document that holds a
\* field.
C9_Witness ==
  /\ last.op = "parse_line"
  /\ last.res = "False"
  /\ DOMAIN _settings # {}

\* C10: the text of an unsigned document built by parse_line, parsed again
\* into a new document the way RdpBuilder.generate parses, gives the same
\* text.
C10_ReparseIdempotent ==
  (last.op = "parse_line" /\ ~signed(D0)) =>
    \A sep \in LineSeps :
      /\ GenerateParse(<<DocStr(D0, sep)>>).exc = "none"
      /\ DocStr(GenerateParse(<<DocStr(D0, sep)>>).doc, sep) = DocStr(D0, sep)

\* What C11 says of the field f once parse_line has taken its line: get
\* gives the value the line denotes, and the text of the document is the
\* line as it was given.
RoundTrips(D, f) ==
  /\ get(D, f.name) = f.coerced
  /\ LineStr(D.settings[Lower(f.name)]) = FieldLine(f)
  /\ lines(D) = <<FieldLine(f), <<>>>>

\* C11 as stated: for every line name:kind:value with kind s or i (a value
\* int() takes when the kind is i), parse_line on an empty document returns
\* True, get(name) gives the value coerced by the kind, and the field
\* serializes to the line as given.
C11_ParseRoundTrip ==
  [][\A f \in FieldInputs :
       (D0 = EmptyDoc /\ ParseField(f)) =>
         (last'.res = "True" /\ RoundTrips(D1, f))]_vars

\* A decimal numeral as str(int) writes it: digits with no leading zero,
\* after "-" for a negative number only.
CanonicalDigits(body) ==
  /\ Len(body) > 0
  /\ \A i \in 1..Len(body) : IsDigit(body[i])
  /\ Len(body) > 1 => body[1] # "0"

CanonicalInt(v) ==
  IF Len(v) > 0 /\ v[1] = "-"
  THEN CanonicalDigits(Tail(v)) /\ v # <<"-", "0">>
  ELSE CanonicalDigits(v)

\* A line that parse_line and str leave as it is: no whitespace at either
\* end, and a canonical numeral when the kind is i.
CanonicalField(f) ==
  /\ Strip(FieldLine(f)) = FieldLine(f)
  /\ f.kind = <<"i">> => CanonicalInt(f.value)

\* C11 amended: the same for the lines with no whitespace at either end
\* whose value, when the kind is i, is a canonical decimal numeral.
C11_CanonicalRoundTrip ==
  [][\A f \in FieldInputs :
       (CanonicalField(f) /\ D0 = EmptyDoc /\ ParseField(f)) =>
         (last'.res = "True" /\ RoundTrips(D1, f))]_vars

\* C11 happens: parse_line has taken X:i:2 on an empty document, and the
\* document holds the integer 2 under the name X.
C11_Witness ==
  /\ last.op = "parse_line"
  /\ last.res = "True"
  /\ _lines = <<LineEntry(<<"X">>, <<"i">>, IntV(2))>>
  /\ get(D0, <<"x">>) = IntV(2)

\* str.upper() on one character, and on a str.
UpperCh(ch) ==
  IF \E i \in 1..Len(LOWER) : LOWER[i] = ch
  THEN UPPER[CHOOSE i \in 1..Len(LOWER) : LOWER[i] = ch]
  ELSE ch

Upper(s) == [i \in 1..Len(s) |-> UpperCh(s[i])]

\* Letter-case variants of a name: as given, lowercase and uppercase.
CaseVariants(name) == {name, Lower(name), Upper(name)}

\* The value get gives for val in a field of the kind given.
Coerced(kind, val) == IF kind = <<"i">> THEN IntV(PyInt(val).n) ELSE val

\* A call of set in SetInputs that gives a value and returns.
ReturningSet(c) ==
  /\ c[2] # None
  /\ Set(c[1], c[2], c[3])
  /\ last'.res = "none"

\* C12: after a set of name that returns, get of every letter-case variant
\* of name gives the value set, and the index has one key for the name, its
\* lowercase; when a letter-case variant of name was in the index already,
\* the set adds no key to the index and no position to the sequence, and the
\* positions of the name are the ones it had.
C12_NamesCaseInsensitive ==
  [][\A c \in SetInputs :
       (last'.op = "set" /\ ReturningSet(c)) =>
         /\ \A v \in CaseVariants(c[1]) :
              /\ contains(D1, v)
              /\ get(D1, v) = Coerced(_settings'[Lower(c[1])].type, c[2])
         /\ \A key \in DOMAIN _settings' :
              Lower(key) = Lower(c[1]) => key = Lower(c[1])
         /\ (\E v \in CaseVariants(c[1]) : Lower(v) \in DOMAIN _settings) =>
              /\ DOMAIN _settings' \subseteq DOMAIN _settings
              /\ Len(_lines') = Len(_lines)
              /\ PositionsOf(_lines', Lower(c[1])) =
                   PositionsOf(_lines, Lower(c[1]))]_vars

\* C12 happens: the field made as X has been set under the name x; the
\* index has the one key x and the sequence the one position made for X.
C12_Witness ==
  /\ last.op = "set"
  /\ last.res = "none"
  /\ DOMAIN _settings = {<<"x">>}
  /\ _settings[<<"x">>].name = <<"x">>
  /\ Cardinality(PositionsOf(_lines, <<"x">>)) = 1
  /\ \A i \in PositionsOf(_lines, <<"x">>) : _lines[i].name = <<"X">>

\* C13: a sign whose signer fails leaves the index and the position
\* sequence as they were before sign was called.
C13_FailedSignIsNoOp ==
  [][(last'.op = "sign" /\ last'.res = "SignerError")
       => (_settings' = _settings /\ _lines' = _lines)]_vars

\* C18: whatever the chunks and wherever the iterations between the pushes,
\* the lines yielded so far and those the next iteration yields are the
\* lines one iteration yields for the whole text pushed at once; a CR that
\* ends one chunk and the LF that starts the next are one break.
C18_ChunkingInvariant ==
  yielded \o Iter(_buffer, _keepends).yielded
    = Iter(pushed, _keepends).yielded

\* The count of characters of pushed before the k-th line yielded.
YieldStart(k) == IF k = 1 THEN 0 ELSE cuts[k - 1]

\* The count of characters of pushed before the break that ended the k-th
\* line yielded.
YieldEnd(k) ==
  IF _keepends THEN cuts[k] - 1 ELSE YieldStart(k) + Len(yielded[k])

\* Every line yielded is text of pushed that a recognized break follows
\* (and ends, with keepends).
YieldsTerminated ==
  /\ Len(cuts) = Len(yielded)
  /\ \A k \in 1..Len(yielded) :
       /\ YieldEnd(k) < cuts[k]
       /\ cuts[k] <= Len(pushed)
       /\ is_line_break(pushed[YieldEnd(k) + 1])
       /\ yielded[k] =
            SubSeq(pushed, YieldStart(k) + 1,
                   IF _keepends THEN cuts[k] ELSE YieldEnd(k))

\* The text after the last recognized break of text.
AfterLastBreak(text) ==
  SubSeq(text,
         1 + (CHOOSE p \in 0..Len(text) :
                /\ p > 0 => is_line_break(text[p])
                /\ \A q \in (p + 1)..Len(text) : ~is_line_break(text[q])),
         Len(text))

\* C19: every line yielded was followed by a recognized break in the text
\* pushed; after a complete iteration the buffer is the text after the last
\* recognized break; and an iteration over a buffer with no break yields
\* nothing and leaves the buffer as it is.
C19_NoUnterminatedYield ==
  [][/\ YieldsTerminated'
     /\ last'.op = "iter" =>
          /\ _buffer' = AfterLastBreak(pushed')
          /\ _buffer = AfterLastBreak(_buffer) =>
               (_buffer' = _buffer /\ yielded' = yielded)]_vars

\* C19 happens: an iteration has yielded a line and left the fragment b,
\* which no break follows yet, in the buffer.
C19_Witness ==
  /\ last.op = "iter"
  /\ ~_keepends
  /\ yielded = <<<<"a">>>>
  /\ _buffer = <<"b">>
  /\ pushed = <<"a", "LF", "b">>

\* C20: with keepends, the lines yielded so far followed by the buffer are
\* the chunks pushed so far, in order.
C20_NoTextLost ==
  _keepends => Join(<<>>, yielded) \o _buffer = pushed

\* C20 happens: with keepends, a CR and the LF after it have come in two
\* chunks with an iteration between them, and a fragment is in the buffer.
C20_Witness ==
  /\ _keepends
  /\ last.op = "iter"
  /\ yielded = <<<<"a", "CR">>, <<"LF">>>>
  /\ _buffer = <<"b">>

\* C14: when sign_with is set and the signer fails in generate, generate goes
\* on to serialize and return the document, the signer has been called once,
\* and the document is not signed, whatever the template's text was.
C14_FailedSignReturnsUnsigned ==
  (last.op = "sign" /\ last.res = "SignerError") =>
    /\ pc \in {"str", "done"}
    /\ signer_calls = 1
    /\ pc = "done" => \E sep \in LineSeps : result = StrV(DocStr(D0, sep))
    /\ ~signed(D0)

\* The last position of _lines that holds a field of the name k, and that
\* field is the one the index holds.
EnvelopeAt(i, k) ==
  /\ PositionsOf(_lines, k) = {i}
  /\ _lines[i] = _settings[k]

\* C15: after a sign that returns, the position sequence has one signscope
\* entry and one signature entry; they are its last two positions, and the
\* position before them is a blank separator.
C15_EnvelopeAtEnd ==
  (last.op = "sign" /\ last.res = "none") =>
    /\ Len(_lines) >= 3
    /\ ~_lines[Len(_lines) - 2].is_line
    /\ Strip(_lines[Len(_lines) - 2].raw) = <<>>
    /\ EnvelopeAt(Len(_lines) - 1, SIGNATURE_SCOPE)
    /\ EnvelopeAt(Len(_lines), SIGNATURE)

RECURSIVE SplitOn(_, _)
\* s.split(ch)
SplitOn(s, ch) ==
  IF Index(s, ch, 1) = 0 THEN <<s>>
  ELSE <<SubSeq(s, 1, Index(s, ch, 1) - 1)>>
       \o SplitOn(SubSeq(s, Index(s, ch, 1) + 1, Len(s)), ch)

\* The names the scope string of the document D lists, in its order.
ScopeNames(D) ==
  IF get(D, SIGNATURE_SCOPE) = StrV(<<>>) THEN <<>>
  ELSE SplitOn(get(D, SIGNATURE_SCOPE).s, ",")

\* The place in the registry of the entry whose canonical name is n; 0 when
\* there is none.
RegistryPlace(n) ==
  First({r \in 1..Len(SECURE_SETTINGS) : SECURE_SETTINGS[r].secure_name = n})

\* C16: after a sign that returns, the scope string lists the canonical
\* names of the registry fields the document holds, all of them and no other
\* name, in the order of the registry: so it is the same string for the same
\* set of registry fields, whatever the order they were set in.
C16_ScopeInRegistryOrder ==
  (last.op = "sign" /\ last.res = "none") =>
    /\ get(D0, SIGNATURE_SCOPE).t = "str"
    /\ {ScopeNames(D0)[i] : i \in 1..Len(ScopeNames(D0))} =
         {SECURE_SETTINGS[r].secure_name :
            r \in {q \in 1..Len(SECURE_SETTINGS) :
                     SECURE_SETTINGS[q].name \in DOMAIN _settings}}
    /\ \A i \in 1..Len(ScopeNames(D0)) : \A j \in 1..Len(ScopeNames(D0)) :
         i < j => RegistryPlace(ScopeNames(D0)[i])
                    < RegistryPlace(ScopeNames(D0)[j])

\* C16 happens: kdcproxyname was set before the full address, and the scope
\* of the signed document names it after both addresses.
C16_Witness ==
  /\ last.op = "sign"
  /\ last.res = "none"
  /\ Len(_lines) > 2
  /\ _lines[1].name = <<"k", "d", "c", "p", "r", "o", "x", "y", "n", "a", "m", "e">>
  /\ _lines[2].name = <<"F", "u", "l", "l", " ", "A", "d", "d", "r", "e", "s", "s">>
  /\ get(D0, SIGNATURE_SCOPE) =
       StrV(<<"F", "u", "l", "l", " ", "A", "d", "d", "r", "e", "s", "s", ",", "A", "l", "t", "e", "r", "n", "a", "t", "e", " ", "F", "u", "l", "l", " ", "A", "d", "d", "r", "e", "s", "s", ",", "K", "D", "C", "P", "r", "o", "x", "y", "N", "a", "m", "e">>)

\* C17: a sign that returns on a document with a full address and no
\* alternate full address leaves get("alternate full address") equal to
\* get("full address"), and the scope names both; on a document with an
\* alternate full address it leaves that value as it was.
C17_AlternateAddressSynthesis ==
  [][\A signer \in SignerOutcomes :
       (Sign(signer) /\ last'.res = "none") =>
         /\ (get(D0, FULL_ADDRESS) # None
             /\ get(D0, ALTERNATE_FULL_ADDRESS) = None) =>
              /\ get(D1, ALTERNATE_FULL_ADDRESS) = get(D0, FULL_ADDRESS)
              /\ get(D1, ALTERNATE_FULL_ADDRESS) = get(D1, FULL_ADDRESS)
              /\ \E i \in 1..Len(ScopeNames(D1)) :
                   ScopeNames(D1)[i] = <<"F", "u", "l", "l", " ", "A", "d", "d", "r", "e", "s", "s">>
              /\ \E i \in 1..Len(ScopeNames(D1)) :
                   ScopeNames(D1)[i] = <<"A", "l", "t", "e", "r", "n", "a", "t", "e", " ", "F", "u", "l", "l", " ", "A", "d", "d", "r", "e", "s", "s">>
         /\ get(D0, ALTERNATE_FULL_ADDRESS) # None =>
              get(D1, ALTERNATE_FULL_ADDRESS)
                = get(D0, ALTERNATE_FULL_ADDRESS)]_vars

\* C17 happens: the document held only a full address, and the signed
\* document holds the same value as alternate full address.
C17_Witness ==
  /\ last.op = "sign"
  /\ last.res = "none"
  /\ _lines[1] = LineEntry(<<"F", "u", "l", "l", " ", "A", "d", "d", "r", "e", "s", "s">>, <<"s">>, StrV(<<"z">>))
  /\ ~_lines[2].is_line
  /\ _lines[3] = LineEntry(ALTERNATE_FULL_ADDRESS, <<"s">>, StrV(<<"z">>))
  /\ get(D0, ALTERNATE_FULL_ADDRESS) = StrV(<<"z">>)

\* The names sign may set or delete: the envelope fields and the alternate
\* full address.
SignNames == {SIGNATURE_SCOPE, SIGNATURE, ALTERNATE_FULL_ADDRESS}

\* The positions of l that hold a field sign is to leave alone, in order.
OtherFields(l) ==
  SelectSeq(l, LAMBDA e : e.is_line /\ Lower(e.name) \notin SignNames)

\* C21: a sign that returns leaves every field other than the envelope
\* fields and the alternate full address as it was: the index holds the same
\* entries for the same names (name, kind and value), and the positions of
\* those fields are the same entries in the same order.
C21_SignKeepsOtherFields ==
  [][(last'.op = "sign" /\ last'.res = "none") =>
       /\ DOMAIN _settings' \ SignNames = DOMAIN _settings \ SignNames
       /\ \A k \in DOMAIN _settings \ SignNames : _settings'[k] = _settings[k]
       /\ OtherFields(_lines') = OtherFields(_lines)]_vars

\* C21 happens: a document with the fields X and Full Address has been
\* signed, and both are at the positions they had.
C21_Witness ==
  /\ last.op = "sign"
  /\ last.res = "none"
  /\ Len(OtherFields(_lines)) = 2
  /\ Lower(OtherFields(_lines)[1].name) = <<"x">>
  /\ OtherFields(_lines)[2].name = <<"F", "u", "l", "l", " ", "A", "d", "d", "r", "e", "s", "s">>
  /\ signed(D0)

\* The phase of generate an event belongs to: the loop over the template,
\* the last line, the pre-sign hook, the signing, the serialization.
Phase(e) ==
  CASE e.ev \in {"push", "parse_line"} -> 1
    [] e.ev = "last_line" -> 2
    [] e.ev = "hook" -> 3
    [] e.ev = "sign" -> 4
    [] e.ev = "str" -> 5

\* How many events of the kind ev this run of generate has had.
Count(ev) == Cardinality({i \in 1..Len(events) : events[i].ev = ev})

\* The parts or lines of the events of the kind ev, in order.
Args(ev) ==
  [i \in 1..Len(SelectSeq(events, LAMBDA e : e.ev = ev)) |->
     SelectSeq(events, LAMBDA e : e.ev = ev)[i].arg]

\* C22: in a run of generate the pushes and the parse_line calls of the
\* lines yielded come first, in the order of the text (the parts as the
\* template yielded them, the lines as the buffer yielded them), then the
\* parse_line of the last line, then the pre-sign hook, then sign, at most
\* once and only with sign_with set, then str(self.settings): no parse_line
\* after sign, and no serialization before the last line is parsed and, with
\* sign_with set, sign has been called.
C22_GenerateOrder ==
  /\ \A i \in 1..Len(events) : \A j \in 1..Len(events) :
       i < j => Phase(events[i]) <= Phase(events[j])
  /\ \A ev \in {"last_line", "hook", "sign", "str"} : Count(ev) <= 1
  /\ \A i \in 1..Len(events) :
       events[i].ev = "parse_line" => \E j \in 1..(i - 1) : events[j].ev = "push"
  /\ Count("sign") = 1 => sign_with
  /\ \A ev \in {"hook", "sign", "str"} :
       Count(ev) = 1 => Count("last_line") = 1
  /\ Count("str") = 1 => (sign_with => Count("sign") = 1)
  /\ Join(<<>>, Args("push")) = pushed
  /\ pc # "raised" => Args("parse_line") = yielded
  /\ \A k \in 1..Len(cuts) : YieldStart(k) < cuts[k]
  /\ (Count("last_line") = 1 /\ pc # "raised") => Args("last_line") = <<_buffer>>

\* C22 happens: generate has returned after two parts, the lines they
\* held, the last line, the hook and a sign.
C22_Witness ==
  /\ pc = "done"
  /\ Count("push") = 2
  /\ Count("parse_line") >= 2
  /\ Count("last_line") = 1
  /\ Count("hook") = 1
  /\ Count("sign") = 1
  /\ events[Len(events)].ev = "str"

\* C23: after a sign that returns, every field the scope names is at
\* exactly one position of the document, and the line serialized for that
\* position is the line sign put into the blob for the field (sign_settings
\* holds the RdpLine of the index, which sign does not change after it has
\* built the blob).
C23_SignatureCoversText ==
  (last.op = "sign" /\ last.res = "none") =>
    \A r \in 1..Len(SignEntries(D0)) :
      /\ Cardinality(PositionsOf(_lines, SignEntries(D0)[r].name)) = 1
      /\ \A i \in PositionsOf(_lines, SignEntries(D0)[r].name) :
           lines(D0)[i] = LineStr(SignSettings(D0)[r])

\* C24: a document that is not signed serializes no signscope line and no
\* signature line.
C24_UnsignedTextHasNoEnvelope ==
  ~signed(D0) =>
    /\ PositionsOf(_lines, SIGNATURE_SCOPE) = {}
    /\ PositionsOf(_lines, SIGNATURE) = {}

\* The 32-bit number the four bytes of b from position i on hold, least
\* significant byte first.
LittleEndian32(b, i) ==
  b[i] + (256 * b[i + 1]) + (65536 * b[i + 2]) + (16777216 * b[i + 3])

\* C25: when sign returns, the payload it has built is 12 bytes longer
\* than the blob the signer returned: three little-endian 32-bit numbers,
\* 0x00010001, 0x00000001 and the count of bytes of the blob, and then the
\* bytes of the blob as the signer returned them.
C25_PayloadLayout ==
  (last.op = "sign" /\ last.res = "none") =>
    /\ Len(sig) = Len(blob_sig) + 12
    /\ \A i \in 1..Len(sig) : sig[i] \in 0..255
    /\ LittleEndian32(sig, 1) = 65537
    /\ LittleEndian32(sig, 5) = 1
    /\ LittleEndian32(sig, 9) = Len(blob_sig)
    /\ SubSeq(sig, 13, Len(sig)) = blob_sig

\* C25 happens: sign has returned with a blob whose length takes two bytes
\* to write, on a document that holds a field, and the signature field
\* holds the payload.
C25_Witness ==
  /\ last.op = "sign" /\ last.res = "none"
  /\ Len(blob_sig) = 257
  /\ sig[9] = 1 /\ sig[10] = 1
  /\ contains(D0, FULL_ADDRESS)
  /\ get(D0, SIGNATURE) = StrV(Join(<<" ", " ">>, Wrap(b64encode(sig), 64)))

====
